---- MODULE Spec2Model ----
(***************************************************************************)
(* newt_stub: a UEFI second-stage loader (src/src/main.rs).                *)
(*                                                                         *)
(* efi_main locates the file KERNEL on the first filesystem volume         *)
(* (get_kernel_image_handle), reads and parses it and copies its program   *)
(* headers to their load addresses (load_kernel_image), allocates the      *)
(* memory-map buffer and the EBootTable, exits boot services, fills the    *)
(* EBootTable and calls the kernel entry.                                  *)
(*                                                                         *)
(* The program is one sequential thread; pc is its position.  Every        *)
(* panic!, todo!, expect and failed assert halts it (pc = "halted").       *)
(* What the firmware and the ELF parser return is chosen by \E from small  *)
(* sets.  events, allocLog, memLog, kmainLog, reads and exit_calls are     *)
(* history variables: they record the calls the program makes.             *)
(***************************************************************************)
EXTENDS Integers, Sequences, FiniteSets, TLC

\* ------------------------------------------------------------------ bounds

\* usize is modelled modulo UsizeMod (2^64 on the x86_64 target).
UsizeMod == 16
\* Most filesystem handles the firmware reports.
MaxHandles == 9
\* Most directory entries of the volume's root directory.
MaxEntries == 3
\* Most program headers / section headers of the kernel image.
MaxPhdrs == 2
MaxShdrs == 2
\* Largest memory-map size the firmware reports.
MaxMapSize == 9

\* ------------------------------------------------------- program constants

EFI_KERNEL_NAME == "KERNEL"
\* capacity of the ArrayVec of handles
HandleBufCap == 8
\* create_vec_buf(128), the directory scratch buffer
DirBufSize == 128
\* create_vec_buf(4096), the file-info buffer
SizeBufSize == 4096

\* FileAttribute values, as sets of flags (== on bitflags is set equality)
ARCHIVE == {"ARCHIVE"}
AttrValues == {ARCHIVE, {"ARCHIVE", "READ_ONLY"}, {"DIRECTORY"}}

None == [tag |-> "None"]
Unset == [tag |-> "Unset"]
Some(v) == [tag |-> "Some", val |-> v]
Ok(v) == [tag |-> "Ok", val |-> v]
Err == [tag |-> "Err"]

\* ------------------------------------------------------------ environment

\* File names the root directory may hold; the last is 27 characters long.
FileNames == {"KERNEL", "README", "A_LONG_FILE_NAME_OF_27_CHARS"}

\* Bytes of the FileInfo record read_entry writes into dir_buf for an entry:
\* the fixed 80-byte header and the NUL-terminated UTF-16 name.
FileInfoSize(name) == 80 + 2 * (Len(name) + 1)

DirEntries == [file_name : FileNames, attribute : AttrValues]

RECURSIVE SeqsUpTo(_, _)
SeqsUpTo(S, n) ==
    IF n = 0 THEN {<<>>}
    ELSE LET shorter == SeqsUpTo(S, n - 1)
         IN  shorter \cup {Append(s, x) : s \in {t \in shorter : Len(t) = n - 1}, x \in S}

\* A directory holds each name at most once.
DistinctNames(l) == \A i, j \in 1..Len(l) : i # j => l[i].file_name # l[j].file_name
Listings == {l \in SeqsUpTo(DirEntries, MaxEntries) : DistinctNames(l)}

\* ProgramHeader fields the loader reads (goblin's p_offset, p_vaddr, p_paddr,
\* p_filesz, p_memsz), all u64 = usize on the target.
ProgramHeaders ==
    [p_offset : {1, UsizeMod - 1}, p_vaddr : {0, 8}, p_paddr : {0, 8},
     p_filesz : {2}, p_memsz : {3}]

\* What obj.shdr_strtab.get_at(s.sh_name) gives for a section header.
SectionNames == {None, Some(""), Some(".text")}

\* e_entry values of the header, a u64: the last does not fit a usize.
EntryValues == {0, 8, UsizeMod + 8}

\* Addresses the allocator may place kern_buf at.
HeapAddrs == {4, UsizeMod - 4}
\* The address Box::into_raw gives for the EBootTable.
EBootAddr == 12
\* Null pointer
NullPtr == 0

\* The contents of the kernel file: garbage, or an ELF image.
Garbage == [valid |-> FALSE]
ElfImages ==
    {[valid |-> TRUE, e_entry |-> e, program_headers |-> phs] :
        e \in EntryValues, phs \in SeqsUpTo(ProgramHeaders, MaxPhdrs)}
FileContents == {Garbage} \cup ElfImages

VARIABLES
    pc,                 \* position of the thread
    halt,               \* why it halted, "" while running
    overflow_checks,    \* the build: TRUE panics on integer overflow, FALSE wraps
    boot_state,         \* "PreExit" | "PostExit"
    \* get_kernel_image_handle
    fs_handles,         \* handles the firmware has for SimpleFileSystem, -1 until queried
    buf_size, buf, dir, dir_pos, kernel_exists, kernel_image_handle,
    \* load_kernel_image
    kernel_size, kern_buf, bytes, obj, ph_rest, sh_count, entry_point,
    loaderLog,          \* history: how the read and the parse ended, the header's e_entry
    \* efi_main
    kernel_entry, mmap_size, mmap_buf, eboot, eboot_table, rt_table,
    \* history
    events, allocLog, memLog, kmainLog, reads, exit_calls

envVars     == <<overflow_checks>>
locatorVars == <<fs_handles, buf_size, buf, dir, dir_pos, kernel_exists, kernel_image_handle>>
loaderVars  == <<kernel_size, kern_buf, bytes, obj, ph_rest, sh_count, entry_point, loaderLog>>
mainVars    == <<kernel_entry, mmap_size, mmap_buf, eboot, eboot_table, rt_table, boot_state>>
histVars    == <<events, allocLog, memLog, kmainLog, reads, exit_calls>>
vars == <<pc, halt, envVars, locatorVars, loaderVars, mainVars, histVars>>

NoBuf == [ptr |-> NullPtr, len |-> 0, cap |-> 0, zeroed |-> TRUE]
NoObj == [valid |-> FALSE]

Init ==
    /\ pc = "init"
    /\ halt = ""
    /\ overflow_checks \in BOOLEAN
    /\ boot_state = "PreExit"
    /\ fs_handles = -1
    /\ buf_size = 0
    /\ buf = [len |-> 0, written |-> 0]
    /\ dir = <<>>
    /\ dir_pos = 0
    /\ kernel_exists = FALSE
    /\ kernel_image_handle = Unset
    /\ kernel_size = 0
    /\ kern_buf = [ptr |-> NullPtr, len |-> 0, data |-> Garbage]
    /\ bytes = Unset
    /\ obj = NoObj
    /\ ph_rest = <<>>
    /\ sh_count = 0
    /\ entry_point = 0
    /\ loaderLog = [read |-> "none", parse |-> "none", e_entry |-> 0]
    /\ kernel_entry = 0
    /\ mmap_size = 0
    /\ mmap_buf = NoBuf
    /\ eboot = NullPtr
    /\ eboot_table = Unset
    /\ rt_table = None
    /\ events = <<>>
    /\ allocLog = <<>>
    /\ memLog = <<>>
    /\ kmainLog = <<>>
    /\ reads = 0
    /\ exit_calls = 0

\* A panic!, todo!, failed expect or failed assert: the thread halts.
Halt(why) ==
    /\ pc' = "halted"
    /\ halt' = why

\* create_vec_buf / Box::new: one call of the firmware-backed allocator.
AllocRecord(what, size) == [what |-> what, size |-> size, state |-> boot_state]

\* ------------------------------------------------------------------ efi_main

\* uefi_services::init, the console set-up and the firmware-vendor banner
\* (each expect_success / unwrap may fail).
InitServices ==
    /\ pc = "init"
    /\ \E ok \in BOOLEAN :
         IF ok THEN pc' = "check_rev" /\ halt' = halt
         ELSE Halt("init failed")
    /\ UNCHANGED <<envVars, locatorVars, loaderVars, mainVars, histVars>>

\* assert!(major >= 2) and assert!(minor >= 30)
RevisionOk(major, minor) == major >= 2 /\ minor >= 30

CheckRevision ==
    /\ pc = "check_rev"
    /\ \E major \in {1, 2}, minor \in {20, 30} :
         IF RevisionOk(major, minor) THEN pc' = "locate_size" /\ halt' = halt
         ELSE Halt("unsupported UEFI revision")
    /\ UNCHANGED <<envVars, locatorVars, loaderVars, mainVars, histVars>>

\* ---------------------------------------------------- get_kernel_image_handle

\* Mutant of LocateHandleSize: a failed query is taken as one handle.
LocateHandleSize_defaultOne ==
    /\ pc = "locate_size"
    /\ \E n \in 0..MaxHandles, ok \in BOOLEAN :
         /\ fs_handles' = n
         /\ buf_size' = IF ok /\ n > 0 THEN n ELSE 1
         /\ pc' = "set_len"
         /\ halt' = halt
    /\ UNCHANGED <<envVars, buf, dir, dir_pos, kernel_exists, kernel_image_handle,
                   loaderVars, mainVars, histVars>>

\* bt.locate_handle(proto_query, None).expect(..): the firmware reports how
\* many handles implement SimpleFileSystem.  With none it answers NOT_FOUND,
\* an Err; a firmware that answers with a count of 0 instead gets Ok(0).
LocateHandleSize ==
    /\ pc = "locate_size"
    /\ \E n \in 0..MaxHandles, ok \in BOOLEAN :
         /\ fs_handles' = n
         /\ IF ok
            THEN /\ buf_size' = n
                 /\ pc' = "set_len"
                 /\ halt' = halt
            ELSE /\ Halt("Failed to get required handle buf size")
                 /\ UNCHANGED buf_size
    /\ UNCHANGED <<envVars, buf, dir, dir_pos, kernel_exists, kernel_image_handle,
                   loaderVars, mainVars, histVars>>

\* unsafe { buf.set_len(buf_size) } on an ArrayVec of capacity 8: the length
\* is set unchecked.  Beyond the capacity the behaviour is undefined: the
\* thread goes on with the length as set, or crashes.
SetLen ==
    /\ pc = "set_len"
    /\ buf' = [len |-> buf_size, written |-> 0]
    /\ \/ pc' = "locate_fill" /\ halt' = halt
       \/ buf_size > HandleBufCap /\ Halt("undefined behaviour: set_len past capacity")
    /\ UNCHANGED <<envVars, fs_handles, buf_size, dir, dir_pos, kernel_exists, kernel_image_handle,
                   loaderVars, mainVars, histVars>>

\* bt.locate_handle(proto_query, Some(&mut buf)).expect(..): the firmware
\* writes one handle into each of the buf.len() slots it was given.
LocateHandleFill ==
    /\ pc = "locate_fill"
    /\ \E ok \in BOOLEAN :
         IF ok
         THEN /\ buf' = [buf EXCEPT !.written = buf.len]
              /\ pc' = "open_protocol"
              /\ halt' = halt
         ELSE /\ Halt("Failed to get result size for handle buffer")
              /\ UNCHANGED buf
    /\ UNCHANGED <<envVars, fs_handles, buf_size, dir, dir_pos, kernel_exists, kernel_image_handle,
                   loaderVars, mainVars, histVars>>

\* buf[0] (panics on an empty buffer), bt.open_protocol(..) and the
\* interface pointer's as_mut().
OpenProtocol ==
    /\ pc = "open_protocol"
    /\ IF buf.len = 0
       THEN Halt("index out of bounds")
       ELSE \E r \in {"ok", "err", "null"} :
              CASE r = "ok"   -> pc' = "open_volume" /\ halt' = halt
                [] r = "err"  -> Halt("open_protocol failed")
                [] r = "null" -> Halt("no filesystem found")
    /\ UNCHANGED <<envVars, locatorVars, loaderVars, mainVars, histVars>>

\* volume.open_volume().expect(..): the root directory, with its listing.
OpenVolume ==
    /\ pc = "open_volume"
    /\ \E ok \in BOOLEAN :
         IF ok
         THEN /\ \E l \in Listings : dir' = l
              /\ dir_pos' = 1
              /\ pc' = "alloc_dir_buf"
              /\ halt' = halt
         ELSE /\ Halt("Unable to open FileSystem volume root dir")
              /\ UNCHANGED <<dir, dir_pos>>
    /\ UNCHANGED <<envVars, fs_handles, buf_size, buf, kernel_exists, kernel_image_handle,
                   loaderVars, mainVars, histVars>>

\* let mut dir_buf = create_vec_buf(128); let mut kernel_exists = false;
AllocDirBuf ==
    /\ pc = "alloc_dir_buf"
    /\ allocLog' = Append(allocLog, AllocRecord("dir_buf", DirBufSize))
    /\ kernel_exists' = FALSE
    /\ \E ok \in BOOLEAN :
         IF ok THEN pc' = "read_entry" /\ halt' = halt
         ELSE Halt("allocation failed")
    /\ UNCHANGED <<envVars, fs_handles, buf_size, buf, dir, dir_pos, kernel_image_handle,
                   loaderVars, mainVars, events, memLog, kmainLog, reads, exit_calls>>

\* file_name().as_str_in_buf(&mut temp_name) with temp_name an
\* ArrayString<64>: the characters that fit; the Err of a longer name is
\* dropped (let _ = ..).
TempNameCap == 64
TempName(name) == IF Len(name) > TempNameCap THEN SubSeq(name, 1, TempNameCap) ELSE name

\* The test an entry passes to set kernel_exists.
IsKernelEntry(fi) ==
    /\ fi.attribute = ARCHIVE
    /\ TempName(fi.file_name) = EFI_KERNEL_NAME

\* Mutant of ReadEntry: the loop is left at the first match.
ReadEntry_breakOnMatch ==
    /\ pc = "read_entry"
    /\ reads' = reads + 1
    /\ IF dir_pos > Len(dir)
       THEN /\ pc' = "scan_done"
            /\ halt' = halt
            /\ UNCHANGED <<dir_pos, kernel_exists>>
       ELSE IF FileInfoSize(dir[dir_pos].file_name) > DirBufSize
       THEN /\ Halt("not yet implemented: read_entry Err")
            /\ UNCHANGED <<dir_pos, kernel_exists>>
       ELSE /\ kernel_exists' = (kernel_exists \/ IsKernelEntry(dir[dir_pos]))
            /\ dir_pos' = dir_pos + 1
            /\ pc' = IF IsKernelEntry(dir[dir_pos]) THEN "scan_done" ELSE "read_entry"
            /\ halt' = halt
    /\ UNCHANGED <<envVars, fs_handles, buf_size, buf, dir, kernel_image_handle,
                   loaderVars, mainVars, events, allocLog, memLog, kmainLog, exit_calls>>

\* One pass of the loop: dir.read_entry(&mut dir_buf).
\*   Err (the entry's FileInfo does not fit dir_buf)  -> todo!()
\*   Ok(None)                                         -> break
\*   Ok(Some(fi))                                     -> the match test
ReadEntry ==
    /\ pc = "read_entry"
    /\ reads' = reads + 1
    /\ IF dir_pos > Len(dir)
       THEN /\ pc' = "scan_done"
            /\ halt' = halt
            /\ UNCHANGED <<dir_pos, kernel_exists>>
       ELSE IF FileInfoSize(dir[dir_pos].file_name) > DirBufSize
       THEN /\ Halt("not yet implemented: read_entry Err")
            /\ UNCHANGED <<dir_pos, kernel_exists>>
       ELSE /\ kernel_exists' = (kernel_exists \/ IsKernelEntry(dir[dir_pos]))
            /\ dir_pos' = dir_pos + 1
            /\ pc' = "read_entry"
            /\ halt' = halt
    /\ UNCHANGED <<envVars, fs_handles, buf_size, buf, dir, kernel_image_handle,
                   loaderVars, mainVars, events, allocLog, memLog, kmainLog, exit_calls>>

\* After the loop: dir.open(EFI_KERNEL_NAME, Read, READ_ONLY).expect(..) and
\* Some(kernel_file), or None.
LocatorReturn ==
    /\ pc = "scan_done"
    /\ IF kernel_exists
       THEN \E ok \in BOOLEAN :
              IF ok
              THEN /\ kernel_image_handle' = Some(EFI_KERNEL_NAME)
                   /\ pc' = "got_handle"
                   /\ halt' = halt
              ELSE /\ Halt("Unable to open kernel image for reading")
                   /\ UNCHANGED kernel_image_handle
       ELSE /\ kernel_image_handle' = None
            /\ pc' = "got_handle"
            /\ halt' = halt
    /\ UNCHANGED <<envVars, fs_handles, buf_size, buf, dir, dir_pos, kernel_exists,
                   loaderVars, mainVars, histVars>>

\* efi_main: match get_kernel_image_handle(..) { Some(t) => t, None => panic!(..) }
\* The locator's locals go out of scope.
MatchHandle ==
    /\ pc = "got_handle"
    /\ IF kernel_image_handle.tag = "Some"
       THEN pc' = "get_info" /\ halt' = halt
       ELSE Halt("unable to get kernel image file handle")
    /\ fs_handles' = -1
    /\ buf_size' = 0
    /\ buf' = [len |-> 0, written |-> 0]
    /\ dir' = <<>>
    /\ dir_pos' = 0
    /\ kernel_exists' = FALSE
    /\ UNCHANGED <<envVars, kernel_image_handle, loaderVars, mainVars, histVars>>

\* --------------------------------------------------------- load_kernel_image

\* usize arithmetic: a sum that does not fit panics in a build with overflow
\* checks and wraps in one without.
AddOverflows(a, b) == a + b >= UsizeMod
WrappingAdd(a, b) == (a + b) % UsizeMod

\* Mutant of TryIntoUsize: the conversion truncates like `as usize`.
TryIntoUsize_truncating(x) == Ok(x % UsizeMod)

\* u64 -> usize: try_into() fails on a value that does not fit, `as` truncates.
TryIntoUsize(x) == IF x < UsizeMod THEN Ok(x) ELSE Err
AsUsize(x) == x % UsizeMod

\* File sizes the firmware may report for the kernel file.
KernelSizes == {2, 6}

\* let mut size_buf = create_vec_buf(4096);
\* kernel_handle.get_info::<FileInfo>(&mut size_buf).expect(..).file_size().try_into().unwrap()
GetInfo ==
    /\ pc = "get_info"
    /\ allocLog' = Append(allocLog, AllocRecord("size_buf", SizeBufSize))
    /\ \E r \in {"ok", "allocation failed", "error getting kernel image file info"}, sz \in KernelSizes :
         IF r = "ok" /\ TryIntoUsize(sz).tag = "Ok"
         THEN /\ kernel_size' = TryIntoUsize(sz).val
              /\ entry_point' = 0
              /\ pc' = "into_type"
              /\ halt' = halt
         ELSE /\ Halt(r)
              /\ UNCHANGED <<kernel_size, entry_point>>
    /\ UNCHANGED <<envVars, locatorVars, kern_buf, bytes, obj, ph_rest, sh_count, loaderLog,
                   mainVars, events, memLog, kmainLog, reads, exit_calls>>

\* match kernel_handle.into_type(): Regular goes on, Dir and Err are todo!().
IntoType ==
    /\ pc = "into_type"
    /\ \E r \in {"Regular", "Dir", "Err"} :
         IF r = "Regular" THEN pc' = "read_kernel" /\ halt' = halt
         ELSE Halt("not yet implemented: into_type")
    /\ UNCHANGED <<envVars, locatorVars, loaderVars, mainVars, histVars>>

\* let mut kern_buf = create_vec_buf(kernel_size + 1);
\* let bytes = kern.read(&mut kern_buf);
\* The result of the read is kept in bytes, not looked at here.  A read that
\* fails leaves in the buffer whatever the firmware had written.
ReadKernel ==
    /\ pc = "read_kernel"
    /\ allocLog' = Append(allocLog, AllocRecord("kern_buf", WrappingAdd(kernel_size, 1)))
    /\ IF AddOverflows(kernel_size, 1) /\ overflow_checks
       THEN /\ Halt("attempt to add with overflow")
            /\ UNCHANGED <<kern_buf, bytes, loaderLog>>
       ELSE \E alloc_ok \in BOOLEAN, p \in HeapAddrs, data \in FileContents, read_ok \in BOOLEAN :
              IF alloc_ok
              THEN /\ kern_buf' = [ptr |-> p, len |-> WrappingAdd(kernel_size, 1), data |-> data]
                   /\ bytes' = IF read_ok THEN Ok(kernel_size) ELSE Err
                   /\ loaderLog' = [loaderLog EXCEPT !.read = IF read_ok THEN "Ok" ELSE "Err"]
                   /\ pc' = "parse"
                   /\ halt' = halt
              ELSE /\ Halt("allocation failed")
                   /\ UNCHANGED <<kern_buf, bytes, loaderLog>>
    /\ UNCHANGED <<envVars, locatorVars, kernel_size, obj, ph_rest, sh_count, entry_point,
                   mainVars, events, memLog, kmainLog, reads, exit_calls>>

\* goblin::elf::Elf::parse(&kern_buf)
ElfParse(b) == IF b.data.valid THEN Ok(b.data) ELSE Err

\* match Elf::parse(&kern_buf):
\*   Err(e)  => error!(..): logged, and the function goes on to its return
\*              with entry_point still 0;
\*   Ok(obj) => info!(.., bytes.expect("error reading kernel from disk")),
\*              entry_point = obj.header.e_entry.try_into().expect(..)
ParseImage ==
    /\ pc = "parse"
    /\ LET parsed == ElfParse(kern_buf) IN
       IF parsed.tag = "Err"
       THEN /\ loaderLog' = [loaderLog EXCEPT !.parse = "Err"]
            /\ pc' = "load_return"
            /\ halt' = halt
            /\ UNCHANGED <<obj, ph_rest, entry_point>>
       ELSE /\ loaderLog' = [loaderLog EXCEPT !.parse = "Ok", !.e_entry = parsed.val.e_entry]
            /\ obj' = parsed.val
            /\ IF bytes.tag = "Err"
               THEN /\ Halt("error reading kernel from disk")
                    /\ UNCHANGED <<ph_rest, entry_point>>
               ELSE IF TryIntoUsize(parsed.val.e_entry).tag = "Err"
               THEN /\ Halt("unable to convert to platform native entry point")
                    /\ UNCHANGED <<ph_rest, entry_point>>
               ELSE /\ entry_point' = TryIntoUsize(parsed.val.e_entry).val
                    /\ ph_rest' = parsed.val.program_headers
                    /\ pc' = "ph_loop"
                    /\ halt' = halt
    /\ UNCHANGED <<envVars, locatorVars, kernel_size, kern_buf, bytes, sh_count,
                   mainVars, events, allocLog, memLog, kmainLog, reads, exit_calls>>

\* Mutant of SkipHeader: || in place of &&.
SkipHeader_either(ph) == ph.p_vaddr = 0 \/ ph.p_paddr = 0

\* if ph.p_vaddr == 0x0 && ph.p_paddr == 0x0 { continue; }
SkipHeader(ph) == ph.p_vaddr = 0 /\ ph.p_paddr = 0

\* bs.memmove(ph.p_vaddr as *mut u8, src_ptr as *const u8, ph.p_filesz.try_into()..)
\* with src_ptr = (src.as_ptr() as usize) + (ph.p_offset as usize)
SegmentCopy(ph, base) ==
    [dst   |-> AsUsize(ph.p_vaddr),
     src   |-> WrappingAdd(base, AsUsize(ph.p_offset)),
     count |-> TryIntoUsize(ph.p_filesz).val]

\* One pass of `for ph in obj.program_headers`, or the end of the loop.
ProgramHeaderStep ==
    /\ pc = "ph_loop"
    /\ IF ph_rest = <<>>
       THEN /\ pc' = "sh_loop"
            /\ halt' = halt
            /\ sh_count' = 0
            /\ UNCHANGED <<ph_rest, memLog>>
       ELSE LET ph == Head(ph_rest) IN
            /\ UNCHANGED sh_count
            /\ IF SkipHeader(ph)
               THEN /\ ph_rest' = Tail(ph_rest)
                    /\ pc' = "ph_loop"
                    /\ halt' = halt
                    /\ UNCHANGED memLog
               ELSE IF AddOverflows(kern_buf.ptr, AsUsize(ph.p_offset)) /\ overflow_checks
               THEN /\ Halt("attempt to add with overflow")
                    /\ UNCHANGED <<ph_rest, memLog>>
               ELSE IF TryIntoUsize(ph.p_filesz).tag = "Err"
               THEN /\ Halt("convertion failure")
                    /\ UNCHANGED <<ph_rest, memLog>>
               ELSE /\ memLog' = Append(memLog, SegmentCopy(ph, kern_buf.ptr))
                    /\ ph_rest' = Tail(ph_rest)
                    /\ pc' = "ph_loop"
                    /\ halt' = halt
    /\ UNCHANGED <<envVars, locatorVars, kernel_size, kern_buf, bytes, obj, entry_point,
                   loaderLog, mainVars, events, allocLog, kmainLog, reads, exit_calls>>

\* One pass of `for s in obj.section_headers`, or the end of the loop:
\*   obj.shdr_strtab.get_at(s.sh_name).expect("error parsing section name");
\*   an empty name is skipped; otherwise info!(.., s.sh_addr + s.sh_size, ..),
\*   a u64 sum that may overflow.
\* The image's section headers are drawn as the loop reaches them.
SectionHeaderStep ==
    /\ pc = "sh_loop"
    /\ \/ /\ pc' = "load_return"
          /\ halt' = halt
          /\ UNCHANGED sh_count
       \/ /\ sh_count < MaxShdrs
          /\ \E name \in SectionNames, sum_overflows \in BOOLEAN :
               IF name = None
               THEN /\ Halt("error parsing section name")
                    /\ UNCHANGED sh_count
               ELSE IF name.val # "" /\ sum_overflows /\ overflow_checks
               THEN /\ Halt("attempt to add with overflow")
                    /\ UNCHANGED sh_count
               ELSE /\ sh_count' = sh_count + 1
                    /\ pc' = "sh_loop"
                    /\ halt' = halt
    /\ UNCHANGED <<envVars, locatorVars, kernel_size, kern_buf, bytes, obj, ph_rest,
                   entry_point, loaderLog, mainVars, events, allocLog, memLog, kmainLog,
                   reads, exit_calls>>

\* Mutant of LoadReturn: the function returns the 0x0 entry_point was
\* initialised with, not the value assigned from the header.
LoadReturn_initial ==
    /\ pc = "load_return"
    /\ kernel_entry' = 0
    /\ events' = Append(events, "load_kernel_image")
    /\ kernel_size' = 0
    /\ kern_buf' = [ptr |-> NullPtr, len |-> 0, data |-> Garbage]
    /\ bytes' = Unset
    /\ obj' = NoObj
    /\ ph_rest' = <<>>
    /\ sh_count' = 0
    /\ entry_point' = 0
    /\ pc' = "mmap_size"
    /\ halt' = halt
    /\ UNCHANGED <<envVars, locatorVars, loaderLog, mmap_size, mmap_buf, eboot, eboot_table,
                   rt_table, boot_state, allocLog, memLog, kmainLog, reads, exit_calls>>

\* entry_point as *const (): the function returns to efi_main, which keeps
\* the result in kernel_entry; the loader's locals go out of scope.
LoadReturn ==
    /\ pc = "load_return"
    /\ kernel_entry' = entry_point
    /\ events' = Append(events, "load_kernel_image")
    /\ kernel_size' = 0
    /\ kern_buf' = [ptr |-> NullPtr, len |-> 0, data |-> Garbage]
    /\ bytes' = Unset
    /\ obj' = NoObj
    /\ ph_rest' = <<>>
    /\ sh_count' = 0
    /\ entry_point' = 0
    /\ pc' = "mmap_size"
    /\ halt' = halt
    /\ UNCHANGED <<envVars, locatorVars, loaderLog, mmap_size, mmap_buf, eboot, eboot_table,
                   rt_table, boot_state, allocLog, memLog, kmainLog, reads, exit_calls>>

\* -------------------------------------------------------- efi_main, continued

\* Sizes the firmware may report for its memory map.
MapSizes == {0, 1, 8, MaxMapSize}

\* Mutant of VecSize: only the headroom, without the map size itself.
VecSize_headroomOnly(map_size) == map_size \div 8

\* mmap_size.map_size + (mmap_size.map_size as f32 * 0.125) as usize
\* (the f32 product is exact for the sizes modelled, the cast truncates)
VecSize(map_size) == map_size + (map_size \div 8)

\* create_vec_buf(vec_size): a Vec of len = cap = vec_size, every byte 0.
CreateVecBuf(p, vec_size) == [ptr |-> p, len |-> vec_size, cap |-> vec_size, zeroed |-> TRUE]

\* let mut mmap_buf = { memory_map_size(); vec_size; create_vec_buf(vec_size) };
MmapAlloc ==
    /\ pc = "mmap_size"
    /\ \E s \in MapSizes, p \in HeapAddrs, ok \in BOOLEAN :
         /\ mmap_size' = s
         /\ allocLog' = Append(allocLog, AllocRecord("mmap_buf", VecSize(s)))
         /\ IF ok
            THEN /\ mmap_buf' = CreateVecBuf(p, VecSize(s))
                 /\ events' = Append(events, "mmap_buf")
                 /\ pc' = "new_eboot"
                 /\ halt' = halt
            ELSE /\ Halt("allocation failed")
                 /\ UNCHANGED <<mmap_buf, events>>
    /\ UNCHANGED <<envVars, locatorVars, loaderVars, kernel_entry, eboot, eboot_table,
                   rt_table, boot_state, memLog, kmainLog, reads, exit_calls>>

\* EBootTable::new(): a boxed table with every slot None, as a raw pointer.
EBootTableNew == [sys_table |-> None, mmap_buf |-> None, mmap_len |-> None, mmap_cap |-> None]

\* Mutant of NewEBoot: the table is not allocated before the exit; the
\* pointer stays null.
NewEBoot_skipped ==
    /\ pc = "new_eboot"
    /\ pc' = "exit_bs"
    /\ halt' = halt
    /\ UNCHANGED <<envVars, locatorVars, loaderVars, mainVars, histVars>>

\* let kmain = transmute(kernel_entry); let eboot = unsafe { EBootTable::new() };
NewEBoot ==
    /\ pc = "new_eboot"
    /\ allocLog' = Append(allocLog, AllocRecord("eboot", 0))
    /\ \E ok \in BOOLEAN :
         IF ok
         THEN /\ eboot' = EBootAddr
              /\ eboot_table' = EBootTableNew
              /\ pc' = "exit_bs"
              /\ halt' = halt
         ELSE /\ Halt("allocation failed")
              /\ UNCHANGED <<eboot, eboot_table>>
    /\ UNCHANGED <<envVars, locatorVars, loaderVars, kernel_entry, mmap_size, mmap_buf,
                   rt_table, boot_state, events, memLog, kmainLog, reads, exit_calls>>

\* Mutant of ExitBootServices: the Err arm does not stop the thread, which
\* goes on to the update with the boot-time table.
ExitBootServices_errIgnored ==
    /\ pc = "exit_bs"
    /\ exit_calls' = exit_calls + 1
    /\ \E ok \in BOOLEAN :
         /\ boot_state' = IF ok THEN "PostExit" ELSE boot_state
         /\ rt_table' = Some(IF ok THEN "Runtime" ELSE "Boot")
         /\ mmap_buf' = [mmap_buf EXCEPT !.zeroed = ~ok]
         /\ events' = IF ok THEN Append(events, "exit_boot_services") ELSE events
         /\ pc' = "update"
         /\ halt' = halt
    /\ UNCHANGED <<envVars, locatorVars, loaderVars, kernel_entry, mmap_size, eboot,
                   eboot_table, allocLog, memLog, kmainLog, reads>>

\* Mutant of ExitBootServices: boot services are exited right after the image
\* is loaded, before the memory-map buffer and the table are allocated.
ExitBootServices_beforeMap ==
    /\ pc = "mmap_size"
    /\ exit_calls = 0
    /\ exit_calls' = exit_calls + 1
    /\ boot_state' = "PostExit"
    /\ rt_table' = Some("Runtime")
    /\ events' = Append(events, "exit_boot_services")
    /\ pc' = "mmap_size"
    /\ halt' = halt
    /\ UNCHANGED <<envVars, locatorVars, loaderVars, kernel_entry, mmap_size, mmap_buf, eboot,
                   eboot_table, allocLog, memLog, kmainLog, reads>>

\* sys_table.exit_boot_services(efi_image_handle, &mut mmap_buf):
\*   Ok(t)  => the runtime table; the firmware has written the map into mmap_buf;
\*   Err(_) => todo!()
ExitBootServices ==
    /\ pc = "exit_bs"
    /\ exit_calls' = exit_calls + 1
    /\ \E ok \in BOOLEAN :
         IF ok
         THEN /\ boot_state' = "PostExit"
              /\ rt_table' = Some("Runtime")
              /\ mmap_buf' = [mmap_buf EXCEPT !.zeroed = FALSE]
              /\ events' = Append(events, "exit_boot_services")
              /\ pc' = "update"
              /\ halt' = halt
         ELSE /\ Halt("not yet implemented: exit_boot_services Err")
              /\ UNCHANGED <<boot_state, rt_table, mmap_buf, events>>
    /\ UNCHANGED <<envVars, locatorVars, loaderVars, kernel_entry, mmap_size, eboot,
                   eboot_table, allocLog, memLog, kmainLog, reads>>

\* Mutant of Update: the assignment of mmap_cap is left out.
Update_noCap(self, st, buffer) ==
    [sys_table |-> Some(st.val),
     mmap_buf  |-> Some(buffer.ptr),
     mmap_len  |-> Some(buffer.len),
     mmap_cap  |-> self.mmap_cap]

\* EBootTable::update(&mut self, st, mmap_buf): into_raw_parts and four
\* assignments.
Update(self, st, buffer) ==
    [sys_table |-> Some(st.val),
     mmap_buf  |-> Some(buffer.ptr),
     mmap_len  |-> Some(buffer.len),
     mmap_cap  |-> Some(buffer.cap)]

\* Mutant of UpdateEBoot: the table is boxed again inside the update, after
\* boot services were exited.
UpdateEBoot_realloc ==
    /\ pc = "update"
    /\ allocLog' = Append(allocLog, AllocRecord("eboot", 0))
    /\ eboot_table' = Update(eboot_table, rt_table, mmap_buf)
    /\ mmap_buf' = NoBuf
    /\ rt_table' = None
    /\ events' = Append(events, "update")
    /\ pc' = "jump"
    /\ halt' = halt
    /\ UNCHANGED <<envVars, locatorVars, loaderVars, kernel_entry, mmap_size, eboot,
                   boot_state, memLog, kmainLog, reads, exit_calls>>

\* unsafe { eboot.as_mut().expect("error creating eboot table").update(rt_table, mmap_buf) }
\* rt_table and mmap_buf are moved into the call.
UpdateEBoot ==
    /\ pc = "update"
    /\ IF eboot = NullPtr
       THEN /\ Halt("error creating eboot table")
            /\ UNCHANGED <<eboot_table, mmap_buf, rt_table, events>>
       ELSE /\ eboot_table' = Update(eboot_table, rt_table, mmap_buf)
            /\ mmap_buf' = NoBuf
            /\ rt_table' = None
            /\ events' = Append(events, "update")
            /\ pc' = "jump"
            /\ halt' = halt
    /\ UNCHANGED <<envVars, locatorVars, loaderVars, kernel_entry, mmap_size, eboot,
                   boot_state, allocLog, memLog, kmainLog, reads, exit_calls>>

\* Mutant of CallKmain: the jump is also taken when the kernel has returned.
CallKmain_again ==
    /\ pc \in {"jump", "in_kernel"}
    /\ Len(kmainLog) < 2
    /\ kmainLog' = Append(kmainLog, [entry |-> kernel_entry, arg |-> eboot,
                                     table |-> eboot_table, state |-> boot_state])
    /\ events' = IF pc = "jump" THEN Append(events, "kmain") ELSE events
    /\ pc' = "in_kernel"
    /\ halt' = halt
    /\ UNCHANGED <<envVars, locatorVars, loaderVars, mainVars, allocLog, memLog, reads,
                   exit_calls>>

\* (kmain)(eboot): the call of the kernel entry, with the table as it is.
CallKmain ==
    /\ pc = "jump"
    /\ kmainLog' = Append(kmainLog, [entry |-> kernel_entry, arg |-> eboot,
                                     table |-> eboot_table, state |-> boot_state])
    /\ events' = Append(events, "kmain")
    /\ pc' = "in_kernel"
    /\ halt' = halt
    /\ UNCHANGED <<envVars, locatorVars, loaderVars, mainVars, allocLog, memLog, reads,
                   exit_calls>>

\* The kernel returns: panic!()
KernelReturn ==
    /\ pc = "in_kernel"
    /\ Halt("explicit panic")
    /\ UNCHANGED <<envVars, locatorVars, loaderVars, mainVars, histVars>>

Next ==
    \/ InitServices
    \/ CheckRevision
    \/ LocateHandleSize
    \/ SetLen
    \/ LocateHandleFill
    \/ OpenProtocol
    \/ OpenVolume
    \/ AllocDirBuf
    \/ ReadEntry
    \/ LocatorReturn
    \/ MatchHandle
    \/ GetInfo
    \/ IntoType
    \/ ReadKernel
    \/ ParseImage
    \/ ProgramHeaderStep
    \/ SectionHeaderStep
    \/ LoadReturn
    \/ MmapAlloc
    \/ NewEBoot
    \/ ExitBootServices
    \/ UpdateEBoot
    \/ CallKmain
    \/ KernelReturn

Spec == Init /\ [][Next]_vars

\* ===================================================================== claims

PipelineOrder == <<"load_kernel_image", "mmap_buf", "exit_boot_services", "update", "kmain">>
Rank(e) == CHOOSE i \in 1..Len(PipelineOrder) : PipelineOrder[i] = e

\* C1: the pipeline events of efi_main (image loaded, memory-map buffer
\* allocated, boot services exited, table updated, kernel entered) occur only
\* in that order: of any two recorded events the earlier one comes earlier in
\* the list.
C1_PipelineOrder ==
    \A i, j \in 1..Len(events) : i < j => Rank(events[i]) < Rank(events[j])

\* C1 witness: a run in which all five events happened.
C1_Witness == pc = "in_kernel" /\ events = PipelineOrder

NeededBuffers == {"dir_buf", "size_buf", "kern_buf", "mmap_buf", "eboot"}
Allocated == {allocLog[i].what : i \in 1..Len(allocLog)}

\* C2: no allocation is made after exit_boot_services: every allocation call
\* is made in the PreExit state, and once boot services are exited all five
\* buffers the pipeline needs have been allocated.
C2_NoAllocationAfterExit ==
    /\ \A i \in 1..Len(allocLog) : allocLog[i].state = "PreExit"
    /\ boot_state = "PostExit" => NeededBuffers \subseteq Allocated

\* C2 witness: the kernel is entered after the exit, with the five allocations made.
C2_Witness ==
    /\ boot_state = "PostExit"
    /\ pc = "in_kernel"
    /\ Len(allocLog) = 5

\* C3 as stated: the exit call never follows an allocation call, that is,
\* once exit_boot_services has been called no allocation call lies before it.
C3_ExitNeverFollowsAllocation == exit_calls > 0 => allocLog = <<>>

\* C3 amended: an allocation call never follows the boot-services-exit call:
\* from the call of exit_boot_services on, no step makes an allocation.
C3_NoAllocationFollowsExit == [][exit_calls > 0 => allocLog' = allocLog]_vars

\* C3 witness: exit_boot_services was called, after allocations, and the
\* thread took steps after it.
C3_Witness ==
    /\ exit_calls = 1
    /\ allocLog # <<>>
    /\ pc = "jump"

Filled(t) == t.sys_table # None /\ t.mmap_buf # None /\ t.mmap_len # None /\ t.mmap_cap # None
Empty(t)  == t.sys_table = None /\ t.mmap_buf = None /\ t.mmap_len = None /\ t.mmap_cap = None

\* C4: the kernel entry is called at most once, only with all four slots of
\* the table filled, and its argument is the non-null pointer EBootTable::new
\* returned, whose allocation was made before boot services were exited.
C4_KmainOnceWithFilledTable ==
    /\ Len(kmainLog) <= 1
    /\ \A i \in 1..Len(kmainLog) :
         /\ Filled(kmainLog[i].table)
         /\ kmainLog[i].arg = eboot
         /\ kmainLog[i].arg # NullPtr
         /\ \E k \in 1..Len(allocLog) :
              allocLog[k].what = "eboot" /\ allocLog[k].state = "PreExit"

\* C4 witness: the kernel entry was called and has returned.
C4_Witness == Len(kmainLog) = 1 /\ halt = "explicit panic"

\* C5: the four slots are all empty or all filled in every state, they are
\* filled only after a successful exit, and once filled they are not written
\* again.
C5_SlotsFilledOnceTogether ==
    /\ [](eboot_table # Unset =>
            /\ Empty(eboot_table) \/ Filled(eboot_table)
            /\ Filled(eboot_table) => boot_state = "PostExit"
            /\ boot_state = "PreExit" => Empty(eboot_table))
    /\ [][(eboot_table # Unset /\ Filled(eboot_table)) => eboot_table' = eboot_table]_vars

\* C5 witness: the table is filled, from a map buffer of non-zero length.
C5_Witness ==
    /\ eboot_table # Unset
    /\ Filled(eboot_table)
    /\ eboot_table.mmap_len.val > 0
    /\ pc = "jump"

\* C6: if the kernel file does not parse, the pipeline halts: it reaches
\* neither the memory-map sizing nor the exit nor the kernel entry.
C6_ParseFailureHalts ==
    loaderLog.parse = "Err" =>
        /\ pc \in {"load_return", "halted"}
        /\ events = <<>>
        /\ exit_calls = 0
        /\ kmainLog = <<>>

\* C7: if the read of the kernel file fails, the pipeline halts before any
\* segment is copied and before boot services are exited: load_kernel_image
\* does not return.
C7_ReadFailureHalts ==
    loaderLog.read = "Err" =>
        /\ memLog = <<>>
        /\ exit_calls = 0
        /\ events = <<>>

KernelCount(l) == Cardinality({i \in 1..Len(l) : l[i].file_name = EFI_KERNEL_NAME})
ScanHalted == pc = "halted" /\ halt = "not yet implemented: read_entry Err"

\* C8: for a listing that holds the name KERNEL exactly once, the locator
\* returns Some: it neither returns None nor halts in its scan.
C8_KernelFound ==
    (KernelCount(dir) = 1 /\ (pc = "got_handle" \/ ScanHalted)) =>
        kernel_image_handle.tag = "Some"

\* C9: for a listing that holds no entry named KERNEL, the locator returns
\* None at the end of the directory and does not halt in its scan.
C9_NotFoundCleanly ==
    /\ (KernelCount(dir) = 0 /\ pc = "got_handle") => kernel_image_handle = None
    /\ ~(KernelCount(dir) = 0 /\ ScanHalted)

\* The copies C10 asks for, for a sequence of program headers and the base
\* address of the image buffer.
RECURSIVE ExpectedCopies(_, _)
ExpectedCopies(phs, base) ==
    IF phs = <<>> THEN <<>>
    ELSE LET ph == Head(phs)
             rest == ExpectedCopies(Tail(phs), base)
         IN  IF ph.p_vaddr = 0 /\ ph.p_paddr = 0 THEN rest
             ELSE <<[dst |-> ph.p_vaddr, src |-> (base + ph.p_offset) % UsizeMod,
                     count |-> ph.p_filesz]>> \o rest

\* C10: for a parsed image, the memory copies of the loader are exactly, in
\* order, one copy of p_filesz bytes from buffer base + p_offset (in pointer
\* arithmetic) to p_vaddr for each header with (p_vaddr, p_paddr) # (0, 0),
\* none for a header with both zero, and nothing else: after k headers the
\* copies are those of the first k, and without a parsed image there is none.
C10_SegmentCopies ==
    /\ pc \in {"ph_loop", "sh_loop", "load_return"} /\ loaderLog.parse = "Ok" =>
         memLog = ExpectedCopies(
                    SubSeq(obj.program_headers, 1, Len(obj.program_headers) - Len(ph_rest)),
                    kern_buf.ptr)
    /\ loaderLog.parse # "Ok" => memLog = <<>>

\* C10 witness: the loop is over for an image of two headers, one of them
\* copied and one skipped.
C10_Witness ==
    /\ pc = "sh_loop"
    /\ Len(obj.program_headers) = 2
    /\ Len(memLog) = 1

\* C11: for an image whose e_entry E fits the native width, the loader
\* returns exactly E (entry_point holds E from the parse to the return,
\* kernel_entry holds it after the return), and E is the address efi_main
\* calls as the kernel entry.
C11_EntryReturnedAndCalled ==
    (loaderLog.parse = "Ok" /\ loaderLog.e_entry < UsizeMod) =>
        /\ pc \in {"ph_loop", "sh_loop", "load_return"} => entry_point = loaderLog.e_entry
        /\ events # <<>> => kernel_entry = loaderLog.e_entry
        /\ \A i \in 1..Len(kmainLog) : kmainLog[i].entry = loaderLog.e_entry

\* C11 witness: the kernel entry was called for an image with a non-zero e_entry.
C11_Witness ==
    /\ loaderLog.parse = "Ok"
    /\ loaderLog.e_entry = 8
    /\ Len(kmainLog) = 1
    /\ kmainLog[1].entry = 8

\* C12: for an image whose e_entry does not fit the native width the loader
\* halts: it does not return (no truncated address reaches efi_main) and no
\* segment is copied.
C12_WideEntryHalts ==
    (loaderLog.parse = "Ok" /\ loaderLog.e_entry >= UsizeMod) =>
        /\ pc = "halted"
        /\ memLog = <<>>
        /\ events = <<>>
        /\ kmainLog = <<>>

\* C12 witness: the conversion of a wide e_entry failed, on an image with
\* program headers to copy.
C12_Witness ==
    /\ halt = "unable to convert to platform native entry point"
    /\ loaderLog.e_entry >= UsizeMod
    /\ obj.program_headers # <<>>

MapBufferReady == pc \in {"new_eboot", "exit_bs"}

\* C13 as stated: the buffer allocated for a reported map size S has at least
\* S * 1.125 bytes (8 * size >= 9 * S) and is all zero before the exit call.
C13_BufferNineEighths ==
    MapBufferReady => (8 * mmap_buf.len >= 9 * mmap_size /\ mmap_buf.zeroed)

\* C13 amended: the buffer has S plus one eighth of S rounded down bytes: at
\* least S, more than 9/8 * S - 1 and at most 9/8 * S, with len = cap, and it
\* is all zero before the exit call.
C13_BufferSizeRoundedDown ==
    MapBufferReady =>
        /\ mmap_buf.len >= mmap_size
        /\ 8 * mmap_buf.len >= 9 * mmap_size - 7
        /\ 8 * mmap_buf.len <= 9 * mmap_size
        /\ mmap_buf.cap = mmap_buf.len
        /\ mmap_buf.zeroed

\* C13 witness: a map size that is no multiple of 8 and large enough for a
\* non-zero headroom, the buffer about to be passed to the exit call.
C13_Witness ==
    /\ pc = "exit_bs"
    /\ mmap_size % 8 # 0
    /\ mmap_buf.len > mmap_size

\* C14: a section header whose name is unresolved or empty never halts the
\* pipeline.
C14_SectionNamesNeverHalt == halt # "error parsing section name"

ExitFailed == exit_calls > 0 /\ boot_state = "PreExit"

\* C16: if the exit_boot_services call fails the pipeline halts, the slots of
\* the table stay empty and the kernel entry is not called.
C16_ExitFailureHalts ==
    ExitFailed =>
        /\ pc = "halted"
        /\ Empty(eboot_table)
        /\ kmainLog = <<>>

\* C16 witness: the exit call failed.
C16_Witness ==
    /\ ExitFailed
    /\ halt = "not yet implemented: exit_boot_services Err"

\* C15: with zero filesystem handles the pipeline halts inside
\* get_kernel_image_handle: no protocol is opened, no directory is read, and
\* neither the exit nor the kernel entry is reached.
C15_NoHandlesHalts ==
    fs_handles = 0 =>
        /\ pc \in {"set_len", "locate_fill", "open_protocol", "halted"}
        /\ pc = "halted" =>
             halt \in {"Failed to get required handle buf size",
                       "Failed to get result size for handle buffer",
                       "index out of bounds"}
        /\ dir = <<>>
        /\ reads = 0
        /\ exit_calls = 0
        /\ kmainLog = <<>>

\* C15 witness: the firmware has no filesystem handle and the thread has halted.
C15_Witness == fs_handles = 0 /\ pc = "halted"

\* C20: the length set on the handle buffer never exceeds its capacity of 8,
\* and the handle at index 0 used to open the protocol was written by the
\* second locate_handle call.
C20_HandleBufferWithinCapacity ==
    /\ buf.len <= HandleBufCap
    /\ pc = "open_volume" => buf.written >= 1

IsMatch(fi) == fi.file_name = EFI_KERNEL_NAME /\ fi.attribute = {"ARCHIVE"}
HasMatch(l) == \E i \in 1..Len(l) : IsMatch(l[i])
FirstMatch(l) == CHOOSE i \in 1..Len(l) : IsMatch(l[i]) /\ \A k \in 1..(i - 1) : ~IsMatch(l[k])

\* C17 as stated: once an entry has matched the locator reads no further
\* directory entry: the entries it has read end with the first match.
C17_StopsAtFirstMatch ==
    kernel_exists => dir_pos - 1 = FirstMatch(dir)

\* C17 amended: a match does not end the scan: the locator leaves the loop
\* only at the end-of-directory signal, after one read_entry call for every
\* entry and one for the signal, whether or not an entry matched; it returns
\* Some exactly when some entry matched.
C17_ScansWholeDirectory ==
    /\ pc \in {"scan_done", "got_handle"} =>
         /\ dir_pos = Len(dir) + 1
         /\ reads = Len(dir) + 1
         /\ kernel_exists = HasMatch(dir)
    /\ pc = "got_handle" => (kernel_image_handle.tag = "Some") = HasMatch(dir)

\* C17 witness: the first of two entries matched, the one after it was read,
\* and the handle was returned.
C17_Witness ==
    /\ pc = "got_handle"
    /\ kernel_image_handle.tag = "Some"
    /\ Len(dir) = 2
    /\ IsMatch(dir[1])
    /\ reads = 3

\* C18: every segment copy reads only bytes of the image buffer: for every
\* header copied, p_offset + p_filesz is at most the length of kern_buf.
C18_CopiesWithinBuffer ==
    (pc \in {"ph_loop", "sh_loop", "load_return"} /\ loaderLog.parse = "Ok") =>
        \A i \in 1..(Len(obj.program_headers) - Len(ph_rest)) :
            LET ph == obj.program_headers[i] IN
            (ph.p_vaddr # 0 \/ ph.p_paddr # 0) => ph.p_offset + ph.p_filesz <= kern_buf.len

\* C19: the kernel entry is never called at address 0: every call is at the
\* non-zero entry of a successfully parsed image.
C19_NeverJumpsToZero ==
    \A i \in 1..Len(kmainLog) :
        /\ kmainLog[i].entry # 0
        /\ loaderLog.parse = "Ok"

====
